---- MODULE Spec2Model ----
(***************************************************************************)
(* The proxy/relay layer of the print-farm backend (src/main.py):          *)
(*   - websocket_proxy : the bidirectional control-channel relay           *)
(*   - video_proxy / http_proxy_stream.frame_generator : the MJPEG proxy   *)
(*   - image_proxy / http_proxy_get_content : the static resource fetcher  *)
(* together with the registry they read: the printer and location         *)
(* requests of the API (create/update/delete_printer, create/delete_-      *)
(* location).                                                              *)
(*                                                                         *)
(* Spec observes one proxy session at a time over a registry at rest: a    *)
(* request action starts a session only while every session is Idle.       *)
(* SpecRegistry runs the registry requests, SpecLookup interleaves         *)
(* registry writes with sessions up to their dial, and SpecTwoVideo runs   *)
(* two video sessions side by side.                                        *)
(*                                                                         *)
(* SpecFarm and SpecFarmAtomic are the registry of src/main_test.py, the   *)
(* variant with filaments: its requests served concurrently, statement by  *)
(* statement, and one request at a time.                                   *)
(***************************************************************************)
EXTENDS Integers, Sequences, FiniteSets, Bags, TLC

\* ------------------------------------------------------------------ bounds

\* messages each endpoint of a relay session may send
MaxMsgs == 2
\* length of an arbitrary upstream byte stream
MaxArb == 5
\* frames in a well-formed upstream stream
MaxFrames == 2
\* payload bytes in a well-formed frame
MaxPayload == 1

\* --------------------------------------------------------------- constants

\* b'\xff\xd8', the start-of-image marker
SOI == <<255, 216>>
\* b'\xff\xd9', the end-of-image marker
EOI == <<255, 217>>
\* payload bytes of well-formed frames (0x41, 0x42)
PayloadBytes == {65, 66}
\* the byte values upstream streams are drawn from
Bytes == {255, 216, 217, 65}

\* the id the startup seed inserts, and an id no row has
SeedPrinterId == "a1b2c3d4-e5f6-7890-1234-567890abcdef"
PrinterIds == {SeedPrinterId, "no-such-printer"}

\* the ids uuid4() hands to create_printer
UuidPool == {"uuid-1"}

\* the ip_address and location values registry requests carry; "Attic" is
\* a name create_tables does not insert
Addresses == {"192.168.1.100", "192.168.1.101"}
LocationNames == {"Main Workshop", "Garage", "Attic"}

\* PrinterCreate / PrinterUpdate bodies (the fields the model follows)
PrinterData == [location : LocationNames, ip_address : Addresses]

\* src/main_test.py, the registry with filaments: the ids uuid4() hands to
\* its create_printer and create_filament, and the ids requests name
FarmPrinterIds == {"p1", "p2"}
FilamentIds == {"f1", "f2"}

\* Python's None in current_filament_id and in LoadFilamentRequest
Null == "None"

\* LoadFilamentRequest.filament_id is str | None: a filament id, None, or
\* the empty string
LoadFilamentIds == FilamentIds \cup {Null, ""}

\* FilamentCreate / FilamentUpdate bodies (the field the model follows)
Materials == {"PLA", "PETG"}

\* text messages of the control channel
Msgs == {"m1", "m2"}

\* upstream bodies and content types of the static resource
Bodies == {<<1>>, <<1, 2>>}
\* the upstream's content-type header; "" when it sends none
UpstreamContentTypes == {"image/png", ""}

\* ----------------------------------------------------------------- helpers

Min(a, b) == IF a < b THEN a ELSE b

\* Python's bytes.find(sub): the lowest 0-based index of sub in buf, or -1
Find(buf, sub) ==
    LET hits == {i \in 0..(Len(buf) - Len(sub)) :
                    SubSeq(buf, i + 1, i + Len(sub)) = sub}
    IN IF hits = {} THEN -1
       ELSE CHOOSE i \in hits : \A j \in hits : i <= j

\* Python's buf[a:b] for 0 <= a, 0 <= b (empty when a >= b)
Slice(buf, a, b) ==
    IF a >= b THEN <<>> ELSE SubSeq(buf, a + 1, Min(b, Len(buf)))

IsPrefix(s, t) == Len(s) <= Len(t) /\ SubSeq(t, 1, Len(s)) = s

IsSuffix(s, t) ==
    Len(s) <= Len(t) /\ SubSeq(t, Len(t) - Len(s) + 1, Len(t)) = s

RECURSIVE Concat(_)
Concat(ss) == IF ss = <<>> THEN <<>> ELSE Head(ss) \o Concat(Tail(ss))

SeqsUpTo(S, n) == UNION {[1..k -> S] : k \in 0..n}

\* well-formed frames: start marker, payload, end marker
Frames == {SOI \o p \o EOI : p \in SeqsUpTo(PayloadBytes, MaxPayload)}
FrameLists == SeqsUpTo(Frames, MaxFrames)

\* the length of the longest well-formed stream
MaxWellFormed == MaxFrames * (Len(SOI) + MaxPayload + Len(EOI))

\* streams that open a frame and never close it, up to one byte longer than
\* any well-formed stream
NoEndStreams ==
    {SOI \o [i \in 1..n |-> 65] : n \in 0..(MaxWellFormed - 1)}

\* what an upstream camera may send over one connection
UpstreamStreams ==
    SeqsUpTo(Bytes, MaxArb) \cup {Concat(fs) : fs \in FrameLists}
        \cup NoEndStreams

\* what the upstreams of two sessions running together deliver: two frames
\* each, different in every frame
ConcStreams ==
    {SOI \o <<65>> \o EOI \o SOI \o <<66>> \o EOI,
     SOI \o <<66>> \o EOI \o SOI \o EOI}

\* ------------------------------------------------------------------- state

VARIABLES
    printers,       \* printers table: id -> row
    locations,      \* locations table: the bag of the names in its rows
    apiResponse,    \* the answer to the latest registry request
    dlPc,           \* delete_location in flight: "Idle" or "Checked"
    dlName,         \* its location_name
    \* control relay session (websocket_proxy)
    wsPc,           \* Idle, Accepting, Connecting, Relaying, Rejected, Closed
    wsPrinter,      \* the lookup result of the session
    wsAccepted,     \* websocket.accept() has been called
    wsCloseCode,    \* code of the application's websocket.close(), 0: none
    wsDials,        \* websockets.connect() calls made
    wsTarget,       \* the address in printer_ws_url when it was dialled
    printerSocket,  \* none, open, closed: the upstream connection object
    clientOpen,     \* the client has not disconnected
    upstreamOpen,   \* the upstream device has not closed
    clientSent,     \* every message the client sent, in order
    upstreamSent,   \* every message the upstream sent, in order
    clientInbox,    \* sent by the client, not yet received by the relay
    upstreamInbox,  \* sent by the upstream, not yet received by the relay
    toUpstream,     \* messages delivered to the upstream
    toClient,       \* messages delivered to the client
    f2pPc,          \* forward_to_printer: off, recv, send, done
    f2pMsg,         \* forward_to_printer's local `message`
    f2cPc,          \* forward_to_client: off, recv, send, done
    f2cMsg,         \* forward_to_client's local `message`
    \* video session (video_proxy, http_proxy_stream)
    vPc,            \* Idle, Connecting, Streaming, Done, NotFound
    vPrinter,       \* the lookup result of the session
    vStatus,        \* HTTP status of the response, 0: none yet
    vDials,         \* client.stream() calls made
    vTarget,        \* the address in video_url when it was dialled
    vEnd,           \* why the generator ended
    stream,         \* the bytes the upstream sends over this connection
    pos,            \* how many of them have arrived in chunks
    byte_buffer,    \* frame_generator's byte_buffer
    parts,          \* the parts yielded, in order
    \* static resource session (image_proxy, http_proxy_get_content)
    iPc,            \* Idle, Fetching, Done, NotFound
    iPrinter,       \* the lookup result of the session
    iDials,         \* client.get() calls made
    iTarget,        \* the address in image_url when it was fetched
    iResponse,      \* the response the client gets
    iUpstream,      \* what the device answered to the fetch of line 295

    \* a second video session running at the same time (its own call of
    \* http_proxy_stream and frame_generator)
    v2Pc,           \* "Idle", "Streaming", "Done"
    stream2,        \* the bytes its upstream will send
    pos2,           \* how many of them it has received
    byte_buffer2,   \* its frame_generator's byte_buffer
    parts2,         \* the parts it has yielded

    \* the registry of src/main_test.py
    farmPrinters,   \* its printers table: id -> row
    filaments,      \* its filaments table: id -> row
    farmResponse,   \* the answer to the latest request
    dfPc,           \* delete_filament in flight: "Idle" or "Checked"
    dfId,           \* its filament_id
    lfPc,           \* load_filament_to_printer in flight: "Idle",
                    \* "PrinterChecked" or "FilamentChecked"
    lfPrinter,      \* its printer_id
    lfFilament      \* its request.filament_id

regVars == <<printers, locations, apiResponse, dlPc, dlName>>
wsVars == <<wsPc, wsPrinter, wsAccepted, wsCloseCode, wsDials, wsTarget,
           printerSocket,
            clientOpen, upstreamOpen, clientSent, upstreamSent, clientInbox,
            upstreamInbox, toUpstream, toClient, f2pPc, f2pMsg, f2cPc, f2cMsg>>
vVars == <<vPc, vPrinter, vStatus, vDials, vTarget, vEnd, stream, pos,
          byte_buffer, parts>>
iVars == <<iPc, iPrinter, iDials, iTarget, iResponse, iUpstream>>
oVars == <<v2Pc, stream2, pos2, byte_buffer2, parts2>>
fVars == <<farmPrinters, filaments, farmResponse, dfPc, dfId, lfPc, lfPrinter,
          lfFilament>>
vars == <<regVars, wsVars, vVars, iVars, oVars, fVars>>

\* the value of `printer` when the lookup finds no row
None == [found |-> FALSE, id |-> "", location |-> "", ip_address |-> ""]

NoMsg == ""
NoResponse == [status |-> 0, media_type |-> "", content |-> <<>>]

\* no fetch made yet
NoUpstream == [kind |-> "none", body |-> <<>>, ctype |-> ""]

\* the table as create_tables leaves it at startup
SeedPrinters ==
    [id \in {SeedPrinterId} |->
        [found |-> TRUE, id |-> id, location |-> "Main Workshop",
         ip_address |-> "192.168.1.100"]]

\* lines 66-74: the locations create_tables inserts
SeedLocations == {"Main Workshop", "Garage", "Office"}

\* no registry request answered yet
NoApiResponse == [op |-> "", status |-> 0]

\* src/main_test.py lines 59-61: create_tables leaves the tables empty
EmptyTable == [id \in {} |-> Null]

Init ==
    /\ printers = SeedPrinters
    /\ locations = SetToBag(SeedLocations)
    /\ apiResponse = NoApiResponse /\ dlPc = "Idle" /\ dlName = ""
    /\ wsPc = "Idle" /\ wsPrinter = None /\ wsAccepted = FALSE
    /\ wsCloseCode = 0 /\ wsDials = 0 /\ printerSocket = "none"
    /\ wsTarget = "" /\ vTarget = "" /\ iTarget = ""
    /\ clientOpen = TRUE /\ upstreamOpen = FALSE
    /\ clientSent = <<>> /\ upstreamSent = <<>>
    /\ clientInbox = <<>> /\ upstreamInbox = <<>>
    /\ toUpstream = <<>> /\ toClient = <<>>
    /\ f2pPc = "off" /\ f2pMsg = NoMsg /\ f2cPc = "off" /\ f2cMsg = NoMsg
    /\ vPc = "Idle" /\ vPrinter = None /\ vStatus = 0 /\ vDials = 0
    /\ vEnd = "" /\ stream = <<>> /\ pos = 0
    /\ byte_buffer = <<>> /\ parts = <<>>
    /\ iPc = "Idle" /\ iPrinter = None /\ iDials = 0 /\ iResponse = NoResponse
    /\ iUpstream = NoUpstream
    /\ v2Pc = "Idle" /\ stream2 = <<>> /\ pos2 = 0
    /\ byte_buffer2 = <<>> /\ parts2 = <<>>
    /\ farmPrinters = EmptyTable /\ filaments = EmptyTable
    /\ farmResponse = NoApiResponse
    /\ dfPc = "Idle" /\ dfId = "" /\ lfPc = "Idle"
    /\ lfPrinter = "" /\ lfFilament = Null

AllIdle == wsPc = "Idle" /\ vPc = "Idle" /\ iPc = "Idle"

\* ---------------------------------------------------------------- registry

get_printer_details_from_db(printer_id) ==
    IF printer_id \in DOMAIN printers THEN printers[printer_id] ELSE None

\* the row a request body becomes
Row(id, data) ==
    [found |-> TRUE, id |-> id, location |-> data.location,
     ip_address |-> data.ip_address]

\* line 178: some printer row has this location
InUse(location_name) ==
    \E id \in DOMAIN printers : printers[id].location = location_name

\* lines 121-126: every row of the table (as a set: no ORDER BY)
get_all_printers == {printers[id] : id \in DOMAIN printers}

\* lines 128-135: insert under a fresh uuid4 and commit
create_printer(new_id, printer) ==
    /\ new_id \notin DOMAIN printers
    /\ printers' = [id \in DOMAIN printers \cup {new_id} |->
                        IF id = new_id THEN Row(new_id, printer)
                        ELSE printers[id]]
    /\ apiResponse' = [op |-> "create_printer", status |-> 201]
    /\ UNCHANGED <<locations, dlPc, dlName>>
    /\ UNCHANGED <<wsVars, vVars, iVars, oVars, fVars>>

\* an update that inserts the row when the id is not there
update_printer_upsert(printer_id, printer_data) ==
    /\ printers' = [id \in DOMAIN printers \cup {printer_id} |->
                        IF id = printer_id THEN Row(printer_id, printer_data)
                        ELSE printers[id]]
    /\ apiResponse' = [op |-> "update_printer", status |-> 200]
    /\ UNCHANGED <<locations, dlPc, dlName>>
    /\ UNCHANGED <<wsVars, vVars, iVars, oVars, fVars>>

\* lines 137-145: update the row, 404 when rowcount is 0
update_printer(printer_id, printer_data) ==
    /\ IF printer_id \in DOMAIN printers
       THEN /\ printers' = [printers EXCEPT
                                ![printer_id] = Row(printer_id, printer_data)]
            /\ apiResponse' = [op |-> "update_printer", status |-> 200]
       ELSE /\ printers' = printers
            /\ apiResponse' = [op |-> "update_printer", status |-> 404]
    /\ UNCHANGED <<locations, dlPc, dlName>>
    /\ UNCHANGED <<wsVars, vVars, iVars, oVars, fVars>>

\* lines 147-155: delete the row, 404 when rowcount is 0
delete_printer(printer_id) ==
    /\ IF printer_id \in DOMAIN printers
       THEN /\ printers' = [id \in DOMAIN printers \ {printer_id} |->
                                printers[id]]
            /\ apiResponse' = [op |-> "delete_printer", status |-> 204]
       ELSE /\ printers' = printers
            /\ apiResponse' = [op |-> "delete_printer", status |-> 404]
    /\ UNCHANGED <<locations, dlPc, dlName>>
    /\ UNCHANGED <<wsVars, vVars, iVars, oVars, fVars>>

\* lines 159-162: the names of all rows
get_all_locations == BagToSet(locations)

\* an insert into a table without the primary key of line 44
create_location_noKey(name) ==
    /\ locations' = locations (+) SetToBag({name})
    /\ apiResponse' = [op |-> "create_location", status |-> 201]
    /\ UNCHANGED <<printers, dlPc, dlName>>
    /\ UNCHANGED <<wsVars, vVars, iVars, oVars, fVars>>

\* lines 164-173: insert the name; the primary key of line 44 rejects a
\* name a row already has, and any exception becomes 409
create_location(name) ==
    /\ IF BagIn(name, locations)
       THEN /\ locations' = locations
            /\ apiResponse' = [op |-> "create_location", status |-> 409]
       ELSE /\ locations' = locations (+) SetToBag({name})
            /\ apiResponse' = [op |-> "create_location", status |-> 201]
    /\ UNCHANGED <<printers, dlPc, dlName>>
    /\ UNCHANGED <<wsVars, vVars, iVars, oVars, fVars>>

\* lines 177-181: the in-use query is awaited and answered; 400 when a
\* printer has the location, else the handler goes on to its delete
delete_location(location_name) ==
    /\ dlPc = "Idle"
    /\ IF InUse(location_name)
       THEN /\ apiResponse' = [op |-> "delete_location", status |-> 400]
            /\ UNCHANGED <<dlPc, dlName>>
       ELSE /\ dlPc' = "Checked" /\ dlName' = location_name
            /\ UNCHANGED apiResponse
    /\ UNCHANGED <<printers, locations>>
    /\ UNCHANGED <<wsVars, vVars, iVars, oVars, fVars>>

\* lines 183-188: the delete statement, awaited after the query; other
\* requests are served between the two awaits
DeleteLocationExecute ==
    /\ dlPc = "Checked"
    /\ IF BagIn(dlName, locations)
       THEN /\ locations' = [n \in DOMAIN locations \ {dlName} |->
                                 locations[n]]
            /\ apiResponse' = [op |-> "delete_location", status |-> 204]
       ELSE /\ locations' = locations
            /\ apiResponse' = [op |-> "delete_location", status |-> 404]
    /\ dlPc' = "Idle" /\ dlName' = ""
    /\ UNCHANGED printers
    /\ UNCHANGED <<wsVars, vVars, iVars, oVars, fVars>>

NextRegistry ==
    \/ \E id \in UuidPool, printer \in PrinterData : create_printer(id, printer)
    \/ \E id \in PrinterIds \cup UuidPool, data \in PrinterData :
          update_printer(id, data)
    \/ \E id \in PrinterIds \cup UuidPool : delete_printer(id)
    \/ \E name \in LocationNames : create_location(name)
    \/ \E name \in LocationNames : delete_location(name)
    \/ DeleteLocationExecute

\* --------------------------- src/main_test.py: the registry with filaments

\* line 258: some printer row has this current_filament_id
FilamentInUse(filament_id) ==
    \E id \in DOMAIN farmPrinters :
        farmPrinters[id].current_filament_id = filament_id

\* the table without the row of id
Without(table, id) == [x \in DOMAIN table \ {id} |-> table[x]]

\* the table with row under id
With(table, id, row) ==
    [x \in DOMAIN table \cup {id} |-> IF x = id THEN row ELSE table[x]]

\* lines 142-148: insert under a fresh uuid4, current_filament_id NULL
farm_create_printer(new_id, ip_address) ==
    /\ new_id \notin DOMAIN farmPrinters
    /\ farmPrinters' = With(farmPrinters, new_id,
                            [ip_address |-> ip_address,
                             current_filament_id |-> Null])
    /\ farmResponse' = [op |-> "create_printer", status |-> 201]
    /\ UNCHANGED <<filaments, dfPc, dfId, lfPc, lfPrinter, lfFilament>>
    /\ UNCHANGED <<regVars, wsVars, vVars, iVars, oVars>>

\* lines 150-157: update the PrinterUpdate columns, 404 when rowcount is 0
farm_update_printer(printer_id, ip_address) ==
    /\ IF printer_id \in DOMAIN farmPrinters
       THEN /\ farmPrinters' = [farmPrinters EXCEPT
                                  ![printer_id].ip_address = ip_address]
            /\ farmResponse' = [op |-> "update_printer", status |-> 200]
       ELSE /\ farmPrinters' = farmPrinters
            /\ farmResponse' = [op |-> "update_printer", status |-> 404]
    /\ UNCHANGED <<filaments, dfPc, dfId, lfPc, lfPrinter, lfFilament>>
    /\ UNCHANGED <<regVars, wsVars, vVars, iVars, oVars>>

\* lines 159-166: delete the row, 404 when rowcount is 0
farm_delete_printer(printer_id) ==
    /\ IF printer_id \in DOMAIN farmPrinters
       THEN /\ farmPrinters' = Without(farmPrinters, printer_id)
            /\ farmResponse' = [op |-> "delete_printer", status |-> 204]
       ELSE /\ farmPrinters' = farmPrinters
            /\ farmResponse' = [op |-> "delete_printer", status |-> 404]
    /\ UNCHANGED <<filaments, dfPc, dfId, lfPc, lfPrinter, lfFilament>>
    /\ UNCHANGED <<regVars, wsVars, vVars, iVars, oVars>>

\* lines 238-244: insert under a fresh uuid4
create_filament(new_id, material) ==
    /\ new_id \notin DOMAIN filaments
    /\ filaments' = With(filaments, new_id, [material |-> material])
    /\ farmResponse' = [op |-> "create_filament", status |-> 201]
    /\ UNCHANGED <<farmPrinters, dfPc, dfId, lfPc, lfPrinter, lfFilament>>
    /\ UNCHANGED <<regVars, wsVars, vVars, iVars, oVars>>

\* lines 246-253: update the row, 404 when rowcount is 0
update_filament(filament_id, material) ==
    /\ IF filament_id \in DOMAIN filaments
       THEN /\ filaments' = [filaments EXCEPT
                                ![filament_id].material = material]
            /\ farmResponse' = [op |-> "update_filament", status |-> 200]
       ELSE /\ filaments' = filaments
            /\ farmResponse' = [op |-> "update_filament", status |-> 404]
    /\ UNCHANGED <<farmPrinters, dfPc, dfId, lfPc, lfPrinter, lfFilament>>
    /\ UNCHANGED <<regVars, wsVars, vVars, iVars, oVars>>

\* lines 257-261: the in-use query; 400 when a printer has the filament
\* loaded, else the handler goes on to its delete statement
DeleteFilamentCheck(filament_id) ==
    /\ dfPc = "Idle"
    /\ IF FilamentInUse(filament_id)
       THEN /\ farmResponse' = [op |-> "delete_filament", status |-> 400]
            /\ UNCHANGED <<dfPc, dfId>>
       ELSE /\ dfPc' = "Checked" /\ dfId' = filament_id
            /\ UNCHANGED farmResponse
    /\ UNCHANGED <<farmPrinters, filaments, lfPc, lfPrinter, lfFilament>>
    /\ UNCHANGED <<regVars, wsVars, vVars, iVars, oVars>>

\* lines 263-268: the delete statement, 404 when rowcount is 0
DeleteFilamentExecute ==
    /\ dfPc = "Checked"
    /\ IF dfId \in DOMAIN filaments
       THEN /\ filaments' = Without(filaments, dfId)
            /\ farmResponse' = [op |-> "delete_filament", status |-> 204]
       ELSE /\ filaments' = filaments
            /\ farmResponse' = [op |-> "delete_filament", status |-> 404]
    /\ dfPc' = "Idle" /\ dfId' = ""
    /\ UNCHANGED <<farmPrinters, lfPc, lfPrinter, lfFilament>>
    /\ UNCHANGED <<regVars, wsVars, vVars, iVars, oVars>>

\* lines 171-173: the printer must exist
LoadFilamentCheckPrinter(printer_id, filament_id) ==
    /\ lfPc = "Idle"
    /\ IF printer_id \notin DOMAIN farmPrinters
       THEN /\ farmResponse' = [op |-> "load_filament", status |-> 404]
            /\ UNCHANGED <<lfPc, lfPrinter, lfFilament>>
       ELSE /\ lfPc' = "PrinterChecked"
            /\ lfPrinter' = printer_id /\ lfFilament' = filament_id
            /\ UNCHANGED farmResponse
    /\ UNCHANGED <<farmPrinters, filaments, dfPc, dfId>>
    /\ UNCHANGED <<regVars, wsVars, vVars, iVars, oVars>>

\* lines 176-179: `if request.filament_id:` is false for None and for the
\* empty string; otherwise the filament must exist
LoadFilamentCheckFilament ==
    /\ lfPc = "PrinterChecked"
    /\ IF lfFilament \notin {Null, ""} /\ lfFilament \notin DOMAIN filaments
       THEN /\ farmResponse' = [op |-> "load_filament", status |-> 404]
            /\ lfPc' = "Idle" /\ lfPrinter' = "" /\ lfFilament' = Null
       ELSE /\ lfPc' = "FilamentChecked"
            /\ UNCHANGED <<farmResponse, lfPrinter, lfFilament>>
    /\ UNCHANGED <<farmPrinters, filaments, dfPc, dfId>>
    /\ UNCHANGED <<regVars, wsVars, vVars, iVars, oVars>>

\* lines 182-185: the update statement (of no row when the printer has
\* gone) and the 204
LoadFilamentUpdate ==
    /\ lfPc = "FilamentChecked"
    /\ farmPrinters' =
          IF lfPrinter \in DOMAIN farmPrinters
          THEN [farmPrinters EXCEPT
                   ![lfPrinter].current_filament_id = lfFilament]
          ELSE farmPrinters
    /\ farmResponse' = [op |-> "load_filament", status |-> 204]
    /\ lfPc' = "Idle" /\ lfPrinter' = "" /\ lfFilament' = Null
    /\ UNCHANGED <<filaments, dfPc, dfId>>
    /\ UNCHANGED <<regVars, wsVars, vVars, iVars, oVars>>

\* lines 255-268 run without another request in between
delete_filament(filament_id) ==
    /\ dfPc = "Idle"
    /\ IF FilamentInUse(filament_id)
       THEN /\ filaments' = filaments
            /\ farmResponse' = [op |-> "delete_filament", status |-> 400]
       ELSE IF filament_id \in DOMAIN filaments
       THEN /\ filaments' = Without(filaments, filament_id)
            /\ farmResponse' = [op |-> "delete_filament", status |-> 204]
       ELSE /\ filaments' = filaments
            /\ farmResponse' = [op |-> "delete_filament", status |-> 404]
    /\ UNCHANGED <<farmPrinters, dfPc, dfId, lfPc, lfPrinter, lfFilament>>
    /\ UNCHANGED <<regVars, wsVars, vVars, iVars, oVars>>

\* lines 168-185 run without another request in between
load_filament_to_printer(printer_id, filament_id) ==
    /\ lfPc = "Idle"
    /\ IF printer_id \notin DOMAIN farmPrinters
       THEN /\ farmPrinters' = farmPrinters
            /\ farmResponse' = [op |-> "load_filament", status |-> 404]
       ELSE IF /\ filament_id \notin {Null, ""}
               /\ filament_id \notin DOMAIN filaments
       THEN /\ farmPrinters' = farmPrinters
            /\ farmResponse' = [op |-> "load_filament", status |-> 404]
       ELSE /\ farmPrinters' = [farmPrinters EXCEPT
                   ![printer_id].current_filament_id = filament_id]
            /\ farmResponse' = [op |-> "load_filament", status |-> 204]
    /\ UNCHANGED <<filaments, dfPc, dfId, lfPc, lfPrinter, lfFilament>>
    /\ UNCHANGED <<regVars, wsVars, vVars, iVars, oVars>>

\* the requests that are one statement
NextFarmCrud ==
    \/ \E id \in FarmPrinterIds, ip \in Addresses :
          farm_create_printer(id, ip)
    \/ \E id \in FarmPrinterIds, ip \in Addresses :
          farm_update_printer(id, ip)
    \/ \E id \in FarmPrinterIds : farm_delete_printer(id)
    \/ \E id \in FilamentIds, material \in Materials :
          create_filament(id, material)
    \/ \E id \in FilamentIds, material \in Materials :
          update_filament(id, material)

\* requests served by the thread pool: a delete_filament and a
\* load_filament_to_printer advance statement by statement, in any order
NextFarm ==
    \/ NextFarmCrud
    \/ \E id \in FilamentIds : DeleteFilamentCheck(id)
    \/ DeleteFilamentExecute
    \/ \E p \in FarmPrinterIds, f \in LoadFilamentIds :
          LoadFilamentCheckPrinter(p, f)
    \/ LoadFilamentCheckFilament
    \/ LoadFilamentUpdate

SpecFarm == Init /\ [][NextFarm]_vars

\* every request executed atomically, one after another
NextFarmAtomic ==
    \/ NextFarmCrud
    \/ \E id \in FilamentIds : delete_filament(id)
    \/ \E p \in FarmPrinterIds, f \in LoadFilamentIds :
          load_filament_to_printer(p, f)

SpecFarmAtomic == Init /\ [][NextFarmAtomic]_vars

\* ----------------------------------------- control relay: websocket_proxy

\* websocket_proxy without the `if not printer` test of line 206
websocket_proxy_unchecked(printer_id) ==
    /\ AllIdle
    /\ wsPrinter' = get_printer_details_from_db(printer_id)
    /\ wsPc' = "Accepting"
    /\ UNCHANGED <<wsCloseCode, wsAccepted, wsDials, wsTarget, printerSocket,
                   clientOpen, upstreamOpen, clientSent, upstreamSent,
                   clientInbox, upstreamInbox, toUpstream, toClient, f2pPc,
                   f2pMsg, f2cPc, f2cMsg>>
    /\ UNCHANGED <<regVars, vVars, iVars, oVars, fVars>>

\* lines 205-208: the lookup, and the rejection of an unknown printer
websocket_proxy(printer_id) ==
    /\ AllIdle
    /\ LET printer == get_printer_details_from_db(printer_id) IN
        /\ wsPrinter' = printer
        /\ IF ~printer.found
           THEN wsCloseCode' = 1008 /\ wsPc' = "Rejected"
           ELSE wsCloseCode' = wsCloseCode /\ wsPc' = "Accepting"
    /\ UNCHANGED <<wsAccepted, wsDials, wsTarget, printerSocket,
                   clientOpen,
                   upstreamOpen, clientSent, upstreamSent, clientInbox,
                   upstreamInbox, toUpstream, toClient, f2pPc, f2pMsg,
                   f2cPc, f2cMsg>>
    /\ UNCHANGED <<regVars, vVars, iVars, oVars, fVars>>

\* line 210: await websocket.accept()
WsAccept ==
    /\ wsPc = "Accepting"
    /\ wsAccepted' = TRUE
    /\ wsPc' = "Connecting"
    /\ UNCHANGED <<wsPrinter, wsCloseCode, wsDials, wsTarget, printerSocket,
                   clientOpen,
                   upstreamOpen, clientSent, upstreamSent, clientInbox,
                   upstreamInbox, toUpstream, toClient, f2pPc, f2pMsg,
                   f2cPc, f2cMsg>>
    /\ UNCHANGED <<regVars, vVars, iVars, oVars, fVars>>

\* a relay that dials again after a failed dial
WsConnect_retry(ok) ==
    /\ wsPc = "Connecting"
    /\ wsDials' = wsDials + 1
    /\ wsTarget' = wsPrinter.ip_address
    /\ IF ok
       THEN /\ printerSocket' = "open"
            /\ upstreamOpen' = TRUE
            /\ wsPc' = "Relaying"
            /\ f2pPc' = "recv"
            /\ f2cPc' = "recv"
       ELSE UNCHANGED <<wsPc, printerSocket, upstreamOpen, f2pPc, f2cPc>>
    /\ UNCHANGED <<wsPrinter, wsAccepted, wsCloseCode, clientOpen, clientSent,
                   upstreamSent, clientInbox, upstreamInbox, toUpstream,
                   toClient, f2pMsg, f2cMsg>>
    /\ UNCHANGED <<regVars, vVars, iVars, oVars, fVars>>

\* line 213: websockets.connect(); a failure raises into line 232 and the
\* handler returns
WsConnect(ok) ==
    /\ wsPc = "Connecting"
    /\ wsDials' = wsDials + 1
    /\ wsTarget' = wsPrinter.ip_address
    /\ IF ok
       THEN /\ printerSocket' = "open"
            /\ upstreamOpen' = TRUE
            /\ wsPc' = "Relaying"
            /\ f2pPc' = "recv"
            /\ f2cPc' = "recv"
       ELSE /\ wsPc' = "Closed"
            /\ UNCHANGED <<printerSocket, upstreamOpen, f2pPc, f2cPc>>
    /\ UNCHANGED <<wsPrinter, wsAccepted, wsCloseCode, clientOpen, clientSent,
                   upstreamSent, clientInbox, upstreamInbox, toUpstream,
                   toClient, f2pMsg, f2cMsg>>
    /\ UNCHANGED <<regVars, vVars, iVars, oVars, fVars>>

\* forward_to_printer taking the newest pending message instead of the oldest
forward_to_printer_recv_newest ==
    /\ wsPc = "Relaying" /\ f2pPc = "recv"
    /\ \/ /\ clientInbox # <<>>
          /\ f2pMsg' = clientInbox[Len(clientInbox)]
          /\ clientInbox' = SubSeq(clientInbox, 1, Len(clientInbox) - 1)
          /\ f2pPc' = "send"
       \/ /\ clientInbox = <<>> /\ ~clientOpen
          /\ f2pPc' = "done"
          /\ UNCHANGED <<f2pMsg, clientInbox>>
    /\ UNCHANGED <<wsPc, wsPrinter, wsAccepted, wsCloseCode, wsDials, wsTarget,
                   printerSocket, clientOpen, upstreamOpen, clientSent,
                   upstreamSent, upstreamInbox, toUpstream, toClient,
                   f2cPc, f2cMsg>>
    /\ UNCHANGED <<regVars, vVars, iVars, oVars, fVars>>

\* line 219: message = await websocket.receive_text(); blocks while the
\* client is open and has sent nothing; WebSocketDisconnect ends the task
forward_to_printer_recv ==
    /\ wsPc = "Relaying" /\ f2pPc = "recv"
    /\ \/ /\ clientInbox # <<>>
          /\ f2pMsg' = Head(clientInbox)
          /\ clientInbox' = Tail(clientInbox)
          /\ f2pPc' = "send"
       \/ /\ clientInbox = <<>> /\ ~clientOpen
          /\ f2pPc' = "done"
          /\ UNCHANGED <<f2pMsg, clientInbox>>
    /\ UNCHANGED <<wsPc, wsPrinter, wsAccepted, wsCloseCode, wsDials, wsTarget,
                   printerSocket, clientOpen, upstreamOpen, clientSent,
                   upstreamSent, upstreamInbox, toUpstream, toClient,
                   f2cPc, f2cMsg>>
    /\ UNCHANGED <<regVars, vVars, iVars, oVars, fVars>>

\* line 220: await printer_socket.send(message); ConnectionClosed ends the
\* task
forward_to_printer_send ==
    /\ wsPc = "Relaying" /\ f2pPc = "send"
    /\ IF printerSocket = "open" /\ upstreamOpen
       THEN /\ toUpstream' = Append(toUpstream, f2pMsg)
            /\ f2pPc' = "recv"
       ELSE /\ f2pPc' = "done"
            /\ UNCHANGED toUpstream
    /\ UNCHANGED <<wsPc, wsPrinter, wsAccepted, wsCloseCode, wsDials, wsTarget,
                   printerSocket, clientOpen, upstreamOpen, clientSent,
                   upstreamSent, clientInbox, upstreamInbox, toClient,
                   f2pMsg, f2cPc, f2cMsg>>
    /\ UNCHANGED <<regVars, vVars, iVars, oVars, fVars>>

\* line 226: message = await printer_socket.recv(); blocks while the
\* upstream is open and has sent nothing; ConnectionClosed ends the task
forward_to_client_recv ==
    /\ wsPc = "Relaying" /\ f2cPc = "recv"
    /\ \/ /\ upstreamInbox # <<>>
          /\ f2cMsg' = Head(upstreamInbox)
          /\ upstreamInbox' = Tail(upstreamInbox)
          /\ f2cPc' = "send"
       \/ /\ upstreamInbox = <<>> /\ ~upstreamOpen
          /\ f2cPc' = "done"
          /\ UNCHANGED <<f2cMsg, upstreamInbox>>
    /\ UNCHANGED <<wsPc, wsPrinter, wsAccepted, wsCloseCode, wsDials, wsTarget,
                   printerSocket, clientOpen, upstreamOpen, clientSent,
                   upstreamSent, clientInbox, toUpstream, toClient,
                   f2pPc, f2pMsg>>
    /\ UNCHANGED <<regVars, vVars, iVars, oVars, fVars>>

\* line 227: await websocket.send_text(message); the send to a client that
\* has disconnected raises and ends the task
forward_to_client_send ==
    /\ wsPc = "Relaying" /\ f2cPc = "send"
    /\ IF clientOpen
       THEN /\ toClient' = Append(toClient, f2cMsg)
            /\ f2cPc' = "recv"
       ELSE /\ f2cPc' = "done"
            /\ UNCHANGED toClient
    /\ UNCHANGED <<wsPc, wsPrinter, wsAccepted, wsCloseCode, wsDials, wsTarget,
                   printerSocket, clientOpen, upstreamOpen, clientSent,
                   upstreamSent, clientInbox, upstreamInbox, toUpstream,
                   f2pPc, f2pMsg, f2cMsg>>
    /\ UNCHANGED <<regVars, vVars, iVars, oVars, fVars>>

\* line 230: asyncio.gather returns once BOTH tasks have returned; leaving
\* the `async with` closes printer_socket and the handler returns
WsGather ==
    /\ wsPc = "Relaying" /\ f2pPc = "done" /\ f2cPc = "done"
    /\ printerSocket' = "closed"
    /\ wsPc' = "Closed"
    /\ UNCHANGED <<wsPrinter, wsAccepted, wsCloseCode, wsDials, wsTarget,
                   clientOpen,
                   upstreamOpen, clientSent, upstreamSent, clientInbox,
                   upstreamInbox, toUpstream, toClient, f2pPc, f2pMsg,
                   f2cPc, f2cMsg>>
    /\ UNCHANGED <<regVars, vVars, iVars, oVars, fVars>>

\* the steps the relay takes by itself once it is relaying
RelayStep ==
    \/ forward_to_printer_recv
    \/ forward_to_printer_send
    \/ forward_to_client_recv
    \/ forward_to_client_send
    \/ WsGather

\* ---- the two endpoints of a relay session

ClientSend(m) ==
    /\ wsPc \in {"Connecting", "Relaying"} /\ wsAccepted /\ clientOpen
    /\ Len(clientSent) < MaxMsgs
    /\ clientSent' = Append(clientSent, m)
    /\ clientInbox' = Append(clientInbox, m)
    /\ UNCHANGED <<wsPc, wsPrinter, wsAccepted, wsCloseCode, wsDials, wsTarget,
                   printerSocket, clientOpen, upstreamOpen, upstreamSent,
                   upstreamInbox, toUpstream, toClient, f2pPc, f2pMsg,
                   f2cPc, f2cMsg>>
    /\ UNCHANGED <<regVars, vVars, iVars, oVars, fVars>>

ClientClose ==
    /\ wsPc \in {"Connecting", "Relaying"} /\ wsAccepted /\ clientOpen
    /\ clientOpen' = FALSE
    /\ UNCHANGED <<wsPc, wsPrinter, wsAccepted, wsCloseCode, wsDials, wsTarget,
                   printerSocket, upstreamOpen, clientSent, upstreamSent,
                   clientInbox, upstreamInbox, toUpstream, toClient, f2pPc,
                   f2pMsg, f2cPc, f2cMsg>>
    /\ UNCHANGED <<regVars, vVars, iVars, oVars, fVars>>

UpstreamSend(m) ==
    /\ wsPc = "Relaying" /\ upstreamOpen
    /\ Len(upstreamSent) < MaxMsgs
    /\ upstreamSent' = Append(upstreamSent, m)
    /\ upstreamInbox' = Append(upstreamInbox, m)
    /\ UNCHANGED <<wsPc, wsPrinter, wsAccepted, wsCloseCode, wsDials, wsTarget,
                   printerSocket, clientOpen, upstreamOpen, clientSent,
                   clientInbox, toUpstream, toClient, f2pPc, f2pMsg,
                   f2cPc, f2cMsg>>
    /\ UNCHANGED <<regVars, vVars, iVars, oVars, fVars>>

UpstreamClose ==
    /\ wsPc = "Relaying" /\ upstreamOpen
    /\ upstreamOpen' = FALSE
    /\ UNCHANGED <<wsPc, wsPrinter, wsAccepted, wsCloseCode, wsDials, wsTarget,
                   printerSocket, clientOpen, clientSent, upstreamSent,
                   clientInbox, upstreamInbox, toUpstream, toClient, f2pPc,
                   f2pMsg, f2cPc, f2cMsg>>
    /\ UNCHANGED <<regVars, vVars, iVars, oVars, fVars>>

NextRelay ==
    \/ \E id \in PrinterIds : websocket_proxy(id)
    \/ WsAccept
    \/ \E ok \in BOOLEAN : WsConnect(ok)
    \/ forward_to_printer_recv
    \/ forward_to_printer_send
    \/ forward_to_client_recv
    \/ forward_to_client_send
    \/ WsGather
    \/ \E m \in Msgs : ClientSend(m)
    \/ ClientClose
    \/ \E m \in Msgs : UpstreamSend(m)
    \/ UpstreamClose

\* ------------------------------- video session: video_proxy, frame_generator

\* lines 258-261: both markers are somewhere in the buffer
HasFrame(buf) == Find(buf, SOI) # -1 /\ Find(buf, EOI) # -1

\* line 262: jpg_frame = byte_buffer[start:end+2]
JpgFrame(buf) == Slice(buf, Find(buf, SOI), Find(buf, EOI) + 2)

\* a buffer that is not trimmed after a frame was taken from it
Remainder_untrimmed(buf) == buf

\* byte_buffer[end+1:], one byte short of the end marker
Remainder_offByOne(buf) == Slice(buf, Find(buf, EOI) + 1, Len(buf))

\* line 263: byte_buffer = byte_buffer[end+2:]
Remainder(buf) == Slice(buf, Find(buf, EOI) + 2, Len(buf))

\* b"\r\n"
CRLF == <<13, 10>>

DigitChars == <<"0", "1", "2", "3", "4", "5", "6", "7", "8", "9">>

\* the f-string's {len(jpg_frame)}: the decimal digits of n
RECURSIVE Decimal(_)
Decimal(n) ==
    IF n < 10 THEN <<DigitChars[n + 1]>>
    ELSE Decimal(n \div 10) \o <<DigitChars[(n % 10) + 1]>>

\* a part whose Content-Length also counts the trailing line break
Part_lengthWithBreak(jpg_frame) ==
    [frame |-> jpg_frame,
     wire |-> <<"--foo", CRLF,
                "Content-Type: image/jpeg", CRLF,
                "Content-Length: ", Decimal(Len(jpg_frame) + 2), CRLF, CRLF,
                jpg_frame, CRLF>>]

\* lines 265-269: one part of the outgoing multipart stream; wire is what
\* is yielded, in order, frame is the jpg_frame it was built from
Part(jpg_frame) ==
    [frame |-> jpg_frame,
     wire |-> <<"--foo", CRLF,
                "Content-Type: image/jpeg", CRLF,
                "Content-Length: ", Decimal(Len(jpg_frame)), CRLF, CRLF,
                jpg_frame, CRLF>>]

\* lines 305-309: the lookup; a known printer gets the StreamingResponse
video_proxy(printer_id) ==
    /\ AllIdle
    /\ LET printer == get_printer_details_from_db(printer_id) IN
        /\ vPrinter' = printer
        /\ IF ~printer.found
           THEN vStatus' = 404 /\ vPc' = "NotFound"
           ELSE vStatus' = 200 /\ vPc' = "Connecting"
    /\ UNCHANGED <<vDials, vTarget, vEnd, stream, pos, byte_buffer, parts>>
    /\ UNCHANGED <<regVars, wsVars, iVars, oVars, fVars>>

\* a session that asks the registry again when it dials
VideoConnect_relookup(s) ==
    /\ vPc = "Connecting"
    /\ vDials' = vDials + 1
    /\ vTarget' = get_printer_details_from_db(vPrinter.id).ip_address
    /\ stream' = s
    /\ vPc' = "Streaming"
    /\ UNCHANGED <<vPrinter, vStatus, vEnd, pos, byte_buffer, parts>>
    /\ UNCHANGED <<regVars, wsVars, iVars, oVars, fVars>>

\* lines 251-253: client.stream() connects and the status is accepted; s is
\* what this upstream connection is going to deliver; the address dialled is
\* the one in video_url, built at line 309 from the row of line 306
VideoConnect(s) ==
    /\ vPc = "Connecting"
    /\ vDials' = vDials + 1
    /\ vTarget' = vPrinter.ip_address
    /\ stream' = s
    /\ vPc' = "Streaming"
    /\ UNCHANGED <<vPrinter, vStatus, vEnd, pos, byte_buffer, parts>>
    /\ UNCHANGED <<regVars, wsVars, iVars, oVars, fVars>>

\* a generator without raise_for_status: the error response is parsed as
\* if it were the video stream
VideoConnectFail_streamed(err) ==
    /\ vPc = "Connecting"
    /\ vDials' = vDials + 1
    /\ vTarget' = vPrinter.ip_address
    /\ vEnd' = err
    /\ stream' = SOI \o EOI
    /\ vPc' = "Streaming"
    /\ UNCHANGED <<vPrinter, vStatus, pos, byte_buffer, parts>>
    /\ UNCHANGED <<regVars, wsVars, iVars, oVars, fVars>>

\* lines 252-253 raising: httpx.ConnectError, a RequestError (line 271), or
\* the HTTPStatusError of raise_for_status (line 274); the generator returns
VideoConnectFail(err) ==
    /\ vPc = "Connecting"
    /\ vDials' = vDials + 1
    /\ vTarget' = vPrinter.ip_address
    /\ vEnd' = err
    /\ vPc' = "Done"
    /\ UNCHANGED <<vPrinter, vStatus, stream, pos, byte_buffer, parts>>
    /\ UNCHANGED <<regVars, wsVars, iVars, oVars, fVars>>

\* what a loop that emits while the buffer holds a frame would leave
RECURSIVE Drain(_, _)
Drain(buf, ps) ==
    IF HasFrame(buf)
    THEN Drain(Remainder(buf), Append(ps, Part(JpgFrame(buf))))
    ELSE [byte_buffer |-> buf, parts |-> ps]

\* an iteration that emits every frame the buffer holds
VideoChunk_drain(k) ==
    /\ vPc = "Streaming"
    /\ k \in 1..(Len(stream) - pos)
    /\ pos' = pos + k
    /\ LET d == Drain(byte_buffer \o SubSeq(stream, pos + 1, pos + k), parts)
       IN /\ parts' = d.parts
          /\ byte_buffer' = d.byte_buffer
    /\ UNCHANGED <<vPc, vPrinter, vStatus, vDials, vTarget, vEnd, stream>>
    /\ UNCHANGED <<regVars, wsVars, iVars, oVars, fVars>>

\* lines 255-269: one iteration of the loop, for a chunk of k bytes
VideoChunk(k) ==
    /\ vPc = "Streaming"
    /\ k \in 1..(Len(stream) - pos)
    /\ pos' = pos + k
    /\ LET buf == byte_buffer \o SubSeq(stream, pos + 1, pos + k) IN
        IF HasFrame(buf)
        THEN /\ parts' = Append(parts, Part(JpgFrame(buf)))
             /\ byte_buffer' = Remainder(buf)
        ELSE /\ parts' = parts
             /\ byte_buffer' = buf
    /\ UNCHANGED <<vPc, vPrinter, vStatus, vDials, vTarget, vEnd, stream>>
    /\ UNCHANGED <<regVars, wsVars, iVars, oVars, fVars>>

\* a generator that flushes what is left in the buffer when the stream ends
VideoStreamEnd_flush ==
    /\ vPc = "Streaming"
    /\ pos = Len(stream)
    /\ vEnd' = "eof"
    /\ vPc' = "Done"
    /\ parts' = IF byte_buffer = <<>> THEN parts
                ELSE Append(parts, Part(byte_buffer))
    /\ UNCHANGED <<vPrinter, vStatus, vDials, vTarget, stream, pos,
                   byte_buffer>>
    /\ UNCHANGED <<regVars, wsVars, iVars, oVars, fVars>>

\* line 255: aiter_raw() is exhausted, the generator falls off its end
VideoStreamEnd ==
    /\ vPc = "Streaming"
    /\ pos = Len(stream)
    /\ vEnd' = "eof"
    /\ vPc' = "Done"
    /\ UNCHANGED <<vPrinter, vStatus, vDials, vTarget, stream, pos,
                   byte_buffer, parts>>
    /\ UNCHANGED <<regVars, wsVars, iVars, oVars, fVars>>

\* a generator without the except clauses: the read error leaves it
VideoStreamError_unhandled ==
    /\ vPc = "Streaming"
    /\ vEnd' = "unhandled"
    /\ vPc' = "Crashed"
    /\ UNCHANGED <<vPrinter, vStatus, vDials, vTarget, stream, pos,
                   byte_buffer, parts>>
    /\ UNCHANGED <<regVars, wsVars, iVars, oVars, fVars>>

\* lines 271-276: a read error while iterating; the generator returns
VideoStreamError ==
    /\ vPc = "Streaming"
    /\ vEnd' = "RequestError"
    /\ vPc' = "Done"
    /\ UNCHANGED <<vPrinter, vStatus, vDials, vTarget, stream, pos,
                   byte_buffer, parts>>
    /\ UNCHANGED <<regVars, wsVars, iVars, oVars, fVars>>

\* line 286: the client goes away and the response closes the generator
VideoClientDisconnect ==
    /\ vPc = "Streaming"
    /\ vEnd' = "client"
    /\ vPc' = "Done"
    /\ UNCHANGED <<vPrinter, vStatus, vDials, vTarget, stream, pos,
                   byte_buffer, parts>>
    /\ UNCHANGED <<regVars, wsVars, iVars, oVars, fVars>>

NextVideo ==
    \/ \E id \in PrinterIds : video_proxy(id)
    \/ \E s \in UpstreamStreams : VideoConnect(s)
    \/ \E err \in {"ConnectError", "HTTPStatusError"} : VideoConnectFail(err)
    \/ \E k \in 1..(Len(stream) - pos) : VideoChunk(k)
    \/ VideoStreamEnd
    \/ VideoStreamError
    \/ VideoClientDisconnect

\* ------------------------------ a second video session at the same time

\* lines 304-309 and 251-253 of the second request: lookup and connect
OtherVideoConnect(printer_id, s) ==
    /\ v2Pc = "Idle"
    /\ get_printer_details_from_db(printer_id).found
    /\ stream2' = s
    /\ v2Pc' = "Streaming"
    /\ UNCHANGED <<pos2, byte_buffer2, parts2>>
    /\ UNCHANGED <<regVars, wsVars, vVars, iVars, fVars>>

\* a generator whose byte_buffer is one object shared by all sessions
OtherVideoChunk_sharedBuffer(k) ==
    /\ v2Pc = "Streaming"
    /\ k \in 1..(Len(stream2) - pos2)
    /\ pos2' = pos2 + k
    /\ LET buf == byte_buffer \o SubSeq(stream2, pos2 + 1, pos2 + k) IN
        IF HasFrame(buf)
        THEN /\ parts2' = Append(parts2, Part(JpgFrame(buf)))
             /\ byte_buffer' = Remainder(buf)
        ELSE /\ parts2' = parts2
             /\ byte_buffer' = buf
    /\ UNCHANGED <<v2Pc, stream2, byte_buffer2>>
    /\ UNCHANGED <<vPc, vPrinter, vStatus, vDials, vTarget, vEnd, stream, pos,
                   parts>>
    /\ UNCHANGED <<regVars, wsVars, iVars, fVars>>

\* lines 255-269 in the second request's frame_generator: one iteration,
\* on that generator's own byte_buffer (line 250)
OtherVideoChunk(k) ==
    /\ v2Pc = "Streaming"
    /\ k \in 1..(Len(stream2) - pos2)
    /\ pos2' = pos2 + k
    /\ LET buf == byte_buffer2 \o SubSeq(stream2, pos2 + 1, pos2 + k) IN
        IF HasFrame(buf)
        THEN /\ parts2' = Append(parts2, Part(JpgFrame(buf)))
             /\ byte_buffer2' = Remainder(buf)
        ELSE /\ parts2' = parts2
             /\ byte_buffer2' = buf
    /\ UNCHANGED <<v2Pc, stream2>>
    /\ UNCHANGED <<regVars, wsVars, vVars, iVars, fVars>>

\* line 255 in the second request: its stream is exhausted
OtherVideoStreamEnd ==
    /\ v2Pc = "Streaming"
    /\ pos2 = Len(stream2)
    /\ v2Pc' = "Done"
    /\ UNCHANGED <<stream2, pos2, byte_buffer2, parts2>>
    /\ UNCHANGED <<regVars, wsVars, vVars, iVars, fVars>>

\* ----------------- static resource session: image_proxy, http_proxy_get_content

\* lines 312-316: the lookup
image_proxy(printer_id) ==
    /\ AllIdle
    /\ LET printer == get_printer_details_from_db(printer_id) IN
        /\ iPrinter' = printer
        /\ IF ~printer.found
           THEN /\ iResponse' = [NoResponse EXCEPT !.status = 404]
                /\ iPc' = "NotFound"
           ELSE /\ iResponse' = iResponse
                /\ iPc' = "Fetching"
    /\ UNCHANGED <<iDials, iTarget, iUpstream>>
    /\ UNCHANGED <<regVars, wsVars, vVars, oVars, fVars>>

\* lines 296-299: the whole body has been downloaded
http_proxy_get_content(body, ctype) ==
    /\ iPc = "Fetching"
    /\ iDials' = iDials + 1
    /\ iTarget' = iPrinter.ip_address
    /\ iResponse' =
          [status |-> 200,
           media_type |-> IF ctype = "" THEN "application/octet-stream"
                          ELSE ctype,
           content |-> body]
    /\ iUpstream' = [kind |-> "ok", body |-> body, ctype |-> ctype]
    /\ iPc' = "Done"
    /\ UNCHANGED iPrinter
    /\ UNCHANGED <<regVars, wsVars, vVars, oVars, fVars>>

\* lines 300-301: httpx.RequestError becomes 502; the HTTPStatusError of
\* raise_for_status is no RequestError and leaves the handler (500)
HttpProxyGetContentFail(err) ==
    /\ iPc = "Fetching"
    /\ iDials' = iDials + 1
    /\ iTarget' = iPrinter.ip_address
    /\ iResponse' = [NoResponse EXCEPT
                        !.status = IF err = "RequestError" THEN 502 ELSE 500]
    /\ iUpstream' = [NoUpstream EXCEPT !.kind = err]
    /\ iPc' = "Done"
    /\ UNCHANGED iPrinter
    /\ UNCHANGED <<regVars, wsVars, vVars, oVars, fVars>>

NextImage ==
    \/ \E id \in PrinterIds : image_proxy(id)
    \/ \E body \in Bodies, ctype \in UpstreamContentTypes :
          http_proxy_get_content(body, ctype)
    \/ \E err \in {"RequestError", "HTTPStatusError"} :
          HttpProxyGetContentFail(err)

\* ------------------------------------------------------------ specification

Next == NextRelay \/ NextVideo \/ NextImage

Spec == Init /\ [][Next]_vars

\* the registry's requests on their own
SpecRegistry == Init /\ [][NextRegistry]_vars

\* sessions from their lookup to their dial, with the registry written by
\* update_printer and delete_printer at any moment
NextLookup ==
    \/ \E id \in PrinterIds, data \in PrinterData : update_printer(id, data)
    \/ \E id \in PrinterIds : delete_printer(id)
    \/ \E id \in PrinterIds : websocket_proxy(id)
    \/ WsAccept
    \/ \E ok \in BOOLEAN : WsConnect(ok)
    \/ \E id \in PrinterIds : video_proxy(id)
    \/ VideoConnect(<<>>)
    \/ \E err \in {"ConnectError", "HTTPStatusError"} : VideoConnectFail(err)
    \/ NextImage

SpecLookup == Init /\ [][NextLookup]_vars

\* two video sessions served at the same time, their chunks arriving in
\* any order
NextTwoVideo ==
    \/ \E id \in PrinterIds : video_proxy(id)
    \/ \E s \in ConcStreams : VideoConnect(s)
    \/ \E k \in 1..MaxWellFormed : VideoChunk(k)
    \/ VideoStreamEnd
    \/ \E s \in ConcStreams : OtherVideoConnect(SeedPrinterId, s)
    \/ \E k \in 1..MaxWellFormed : OtherVideoChunk(k)
    \/ OtherVideoStreamEnd

SpecTwoVideo == Init /\ [][NextTwoVideo]_vars

\* ------------------------------------------------------------------ claims

\* the bytes received from the upstream so far
Received == SubSeq(stream, 1, pos)

\* the frames carried by the parts emitted so far
EmittedFrames == [i \in 1..Len(parts) |-> parts[i].frame]

\* C1: once either forwarding direction of a relay session has terminated,
\* the session can reach Closed by the relay's own steps, with no further
\* message or close from the endpoint that is still open: whenever it is
\* not yet Closed, a step of the relay itself is possible.
C1_SiblingCancellation ==
    (wsPc = "Relaying" /\ (f2pPc = "done" \/ f2cPc = "done"))
        => ENABLED RelayStep

\* C2: when the upstream stream is the concatenation of N well-formed frames
\* and has been consumed to its end, the parts emitted carry exactly those N
\* frames, in order, whatever the chunking was.
C2_ChunkBoundaryIndependence ==
    \A fs \in FrameLists :
        (vPc = "Done" /\ vEnd = "eof" /\ stream = Concat(fs))
            => EmittedFrames = fs

\* C3: in each of the three proxy operations, a lookup that finds no printer
\* ends the session at once with not-found (close code 1008 without accept,
\* or HTTP 404) and the session never makes an upstream connection attempt.
C3_UnknownDeviceShortCircuit ==
    /\ (wsPc # "Idle" /\ ~wsPrinter.found)
          => /\ wsPc = "Rejected" /\ wsCloseCode = 1008
             /\ ~wsAccepted /\ wsDials = 0 /\ printerSocket = "none"
    /\ (vPc # "Idle" /\ ~vPrinter.found)
          => /\ vPc = "NotFound" /\ vStatus = 404
             /\ vDials = 0 /\ parts = <<>>
    /\ (iPc # "Idle" /\ ~iPrinter.found)
          => /\ iPc = "NotFound" /\ iResponse.status = 404
             /\ iDials = 0

\* a relay session rejected because the lookup found no printer
C3_Witness ==
    /\ wsPc = "Rejected" /\ ~wsPrinter.found
    /\ wsCloseCode = 1008 /\ wsDials = 0

\* C4: the inbound connection of a relay session is accepted only after the
\* upstream dial has succeeded; after a failed dial the session is Rejected
\* with a close code and was never accepted.
C4_AcceptOnlyAfterDial ==
    /\ wsAccepted => printerSocket # "none"
    /\ (wsDials > 0 /\ printerSocket = "none")
          => wsPc = "Rejected" /\ wsCloseCode # 0 /\ ~wsAccepted

\* C5: at every moment what has been delivered to the upstream is a prefix
\* of what the client sent, and what has been delivered to the client is a
\* prefix of what the upstream sent.
C5_RelayOrderPreserved ==
    /\ IsPrefix(toUpstream, clientSent)
    /\ IsPrefix(toClient, upstreamSent)

\* two different messages relayed to the upstream and one to the client
C5_Witness ==
    /\ Len(toUpstream) >= 2 /\ toUpstream[1] # toUpstream[2]
    /\ Len(toClient) >= 1

\* a buffer maximum that holds every well-formed stream of the model whole
BufferCap == MaxWellFormed

\* C6: the frame buffer never exceeds the configured maximum, and a stream
\* without an end marker that grows past the maximum ends the session with
\* StreamCorruption.
C6_SizeCapEnforced ==
    /\ Len(byte_buffer) <= BufferCap
    /\ (pos > BufferCap /\ Find(Received, EOI) = -1)
          => vPc = "Done" /\ vEnd = "StreamCorruption"

\* C7: every emitted part carries a complete frame: at least four bytes,
\* beginning with the start marker and ending with the end marker.
C7_CompleteFrames ==
    \A i \in 1..Len(parts) :
        /\ Len(parts[i].frame) >= 4
        /\ IsPrefix(SOI, parts[i].frame)
        /\ IsSuffix(EOI, parts[i].frame)

\* C8: when, with the chunk appended, the buffer's first start marker has no
\* end marker after it, the chunk emits no part and the start marker with
\* everything after it is still in the buffer, whatever precedes it.
C8_StartWithoutEndStaysBuffered ==
    [][pos' > pos =>
        LET buf == byte_buffer \o SubSeq(stream, pos + 1, pos')
            start == Find(buf, SOI)
            tail == Slice(buf, start, Len(buf))
        IN (start # -1 /\ Find(tail, EOI) = -1)
              => parts' = parts /\ IsSuffix(tail, byte_buffer')]_vars

\* C9: the step that ends the video session (stream end, error, client
\* gone) emits no part and no step after it does: what is left in the
\* buffer is never emitted.
C9_NoPartialEmission ==
    [][vPc' = "Done" => parts' = parts]_vars

\* a stream that ended with a start marker and no end marker in the buffer
C9_Witness ==
    /\ vPc = "Done" /\ vEnd = "eof"
    /\ Find(byte_buffer, SOI) # -1 /\ Find(byte_buffer, EOI) = -1

C11_FirstEndAfterFirstStart ==
    [][Len(parts') > Len(parts) =>
        LET buf == byte_buffer \o SubSeq(stream, pos + 1, pos')
            start == Find(buf, SOI)
            tail == Slice(buf, start, Len(buf))
        IN /\ start # -1
           /\ Find(tail, EOI) # -1
           /\ parts'[Len(parts')].frame = Slice(tail, 0, Find(tail, EOI) + 2)
      ]_vars

\* C12: once the client has disconnected the relay can go on by itself
\* until the upstream connection is closed, and once the upstream has closed
\* it can go on by itself until the client connection is released: it never
\* waits for the other endpoint.
C12_DisconnectUnblocksPeer ==
    /\ (wsPc = "Relaying" /\ ~clientOpen /\ printerSocket = "open")
          => ENABLED RelayStep
    /\ (wsPc = "Relaying" /\ ~upstreamOpen) => ENABLED RelayStep

C16_VideoSessionTerminates ==
    /\ [][(vPc = "Streaming" /\ vPc' # "Streaming") =>
            /\ vPc' = "Done"
            /\ parts' = parts
            /\ vEnd' \in {"eof", "RequestError", "client"}]_vars
    /\ []((vPc = "Streaming" /\ pos = Len(stream)) => ENABLED VideoStreamEnd)
    /\ [](vPc = "Done" => ~ENABLED NextVideo)

\* a session ended by a read error after it had emitted a frame
C16_Witness ==
    vPc = "Done" /\ vEnd = "RequestError" /\ Len(parts) >= 1

\* C17: a video session whose connect failed, or whose upstream answered
\* with an error status, has ended with no part emitted and nothing read.
C17_ConnectFailureNoOutput ==
    vEnd \in {"ConnectError", "HTTPStatusError"}
        => /\ vPc = "Done" /\ parts = <<>> /\ pos = 0
           /\ ~ENABLED NextVideo

\* a session ended by an upstream error status
C17_Witness ==
    vPc = "Done" /\ vEnd = "HTTPStatusError" /\ vDials = 1 /\ parts = <<>>

\* the number a sequence of decimal digits denotes
RECURSIVE ParseDecimal(_)
ParseDecimal(ds) ==
    IF ds = <<>> THEN 0
    ELSE 10 * ParseDecimal(SubSeq(ds, 1, Len(ds) - 1))
            + (CHOOSE d \in 0..9 : DigitChars[d + 1] = ds[Len(ds)])

\* C14: every emitted part is, in this order, the boundary line, the image
\* content-type header, the content-length header, a blank line, the frame
\* bytes and a line break, and the content-length value is the number of
\* frame bytes the part carries.
C14_PartLayout ==
    \A i \in 1..Len(parts) :
        LET w == parts[i].wire IN
        /\ Len(w) = 10
        /\ w[1] = "--foo" /\ w[2] = CRLF
        /\ w[3] = "Content-Type: image/jpeg" /\ w[4] = CRLF
        /\ w[5] = "Content-Length: " /\ w[7] = CRLF
        /\ w[8] = CRLF
        /\ w[9] = parts[i].frame
        /\ w[10] = CRLF
        /\ ParseDecimal(w[6]) = Len(w[9])

\* a part carrying a frame with a payload byte
C14_Witness ==
    Len(parts) >= 1 /\ Len(parts[1].frame) = 5

\* C13: a finished fetch for a known device is either one response with
\* the complete upstream body and the content type the device reported, or
\* the upstream-unreachable error (502) after a network-level failure.
C13_TwoOutcomes ==
    (iPc = "Done" /\ iPrinter.found) =>
        \/ /\ iUpstream.kind = "ok"
           /\ iResponse.status = 200
           /\ iResponse.content = iUpstream.body
           /\ iUpstream.ctype # "" => iResponse.media_type = iUpstream.ctype
        \/ /\ iUpstream.kind = "RequestError"
           /\ iResponse.status = 502
           /\ iResponse.content = <<>>

\* what one registry lookup of id answers in the current state
CurrentRow(id) == IF id \in DOMAIN printers THEN printers[id] ELSE None

\* C18: a session takes the device's row from the registry as it is when
\* the session starts (the updated address after update_printer, not-found
\* after delete_printer), dials the address of exactly that row, and keeps
\* row and address whatever the registry does while the session runs.
C18_LookupOncePerSession ==
    [][ /\ \A id \in PrinterIds :
            /\ websocket_proxy(id) =>
                  /\ wsPrinter' = CurrentRow(id)
                  /\ id \notin DOMAIN printers => wsPc' = "Rejected"
            /\ video_proxy(id) =>
                  /\ vPrinter' = CurrentRow(id)
                  /\ id \notin DOMAIN printers => vPc' = "NotFound"
            /\ image_proxy(id) =>
                  /\ iPrinter' = CurrentRow(id)
                  /\ id \notin DOMAIN printers => iPc' = "NotFound"
        /\ wsDials' # wsDials =>
              wsPrinter.found /\ wsTarget' = wsPrinter.ip_address
        /\ vDials' # vDials =>
              vPrinter.found /\ vTarget' = vPrinter.ip_address
        /\ iDials' # iDials =>
              iPrinter.found /\ iTarget' = iPrinter.ip_address
        /\ wsPc # "Idle" => wsPrinter' = wsPrinter
        /\ vPc # "Idle" => vPrinter' = vPrinter
        /\ iPc # "Idle" => iPrinter' = iPrinter
        /\ wsDials' = wsDials => wsTarget' = wsTarget
        /\ vDials' = vDials => vTarget' = vTarget
        /\ iDials' = iDials => iTarget' = iTarget
      ]_vars

\* a video session started after an update dialled the new address, and the
\* printer has since been deleted
C18_Witness ==
    /\ vDials = 1 /\ vTarget = "192.168.1.101"
    /\ SeedPrinterId \notin DOMAIN printers

\* C20: delete_location of a location some printer has answers 400 and
\* changes neither the locations nor the printers, and whenever a location
\* leaves the table no printer has it.
C20_DeleteLocationGuarded ==
    [][ /\ \A name \in LocationNames :
            (delete_location(name) /\ InUse(name)) =>
                /\ apiResponse' = [op |-> "delete_location", status |-> 400]
                /\ UNCHANGED <<locations, printers>>
                /\ dlPc' = "Idle"
        /\ \A name \in get_all_locations \ get_all_locations' : ~InUse(name)
      ]_vars

\* one loop iteration of a frame_generator that owns buffer buf, parts ps
\* and position p of stream st leads to buf1, ps1, p1
OwnIteration(st, p, buf, ps, p1, buf1, ps1) ==
    \E k \in 1..(Len(st) - p) :
        LET b == buf \o SubSeq(st, p + 1, p + k) IN
        /\ p1 = p + k
        /\ IF HasFrame(b)
           THEN ps1 = Append(ps, Part(JpgFrame(b))) /\ buf1 = Remainder(b)
           ELSE ps1 = ps /\ buf1 = b

\* C19: with two video sessions running, every change of a session's
\* buffer, position or emitted parts is one loop iteration over a chunk of
\* that session's own stream and its own buffer, and leaves the other
\* session's buffer, position and parts as they were.
C19_SessionsIndependent ==
    [][ /\ <<pos, byte_buffer, parts>>' # <<pos, byte_buffer, parts>> =>
              /\ OwnIteration(stream, pos, byte_buffer, parts,
                              pos', byte_buffer', parts')
              /\ UNCHANGED oVars
        /\ <<pos2, byte_buffer2, parts2>>' # <<pos2, byte_buffer2, parts2>> =>
              /\ OwnIteration(stream2, pos2, byte_buffer2, parts2,
                              pos2', byte_buffer2', parts2')
              /\ UNCHANGED vVars
        /\ vPc = "Streaming" => stream' = stream
        /\ v2Pc = "Streaming" => stream2' = stream2
      ]_vars

\* both sessions are streaming different streams, each has emitted a frame
\* and each holds bytes of its next one
C19_Witness ==
    /\ vPc = "Streaming" /\ v2Pc = "Streaming" /\ stream # stream2
    /\ Len(parts) >= 1 /\ Len(parts2) >= 1
    /\ byte_buffer # <<>> /\ byte_buffer2 # <<>>

\* C21: delete_filament of a filament some printer has loaded answers 400
\* and changes neither the filaments nor the printers, and whenever a
\* filament leaves the table no printer has it loaded.
C21_DeleteFilamentGuarded ==
    [][ /\ \A fid \in FilamentIds :
            (DeleteFilamentCheck(fid) /\ FilamentInUse(fid)) =>
                /\ farmResponse' = [op |-> "delete_filament", status |-> 400]
                /\ UNCHANGED <<filaments, farmPrinters>>
                /\ dfPc' = "Idle"
        /\ \A fid \in DOMAIN filaments \ DOMAIN filaments' :
              ~FilamentInUse(fid)
      ]_vars

\* C22: load_filament_to_printer for an existing printer and an existing
\* filament sets that printer's current_filament_id to the filament; it
\* never changes another printer or a filament; and when the printer does
\* not exist, or the filament id is not None and no filament has it, it
\* answers 404 and changes nothing.
C22_LoadFilamentEffect ==
    [][ \A p \in FarmPrinterIds, f \in LoadFilamentIds :
          load_filament_to_printer(p, f) =>
            /\ filaments' = filaments
            /\ DOMAIN farmPrinters' = DOMAIN farmPrinters
            /\ \A q \in DOMAIN farmPrinters \ {p} :
                  farmPrinters'[q] = farmPrinters[q]
            /\ (p \in DOMAIN farmPrinters /\ f \in DOMAIN filaments) =>
                  /\ farmPrinters' = [farmPrinters EXCEPT
                                         ![p].current_filament_id = f]
                  /\ farmResponse'.status = 204
            /\ (\/ p \notin DOMAIN farmPrinters
                \/ (f # Null /\ f \notin DOMAIN filaments)) =>
                  /\ farmPrinters' = farmPrinters
                  /\ farmResponse'.status = 404
      ]_vars

\* the ids get_all_printers lists
Listed == {row.id : row \in get_all_printers}

\* C23: get_all_printers follows exactly the creations and deletions:
\* create_printer adds one printer, under an id no listed printer has;
\* delete_printer of a listed id removes that printer and no other;
\* update_printer and delete_printer of an id not listed answer 404 and
\* change nothing; and nothing else adds or removes a printer.
C23_PrintersFollowCreateDelete ==
    [][ /\ \A id \in UuidPool, data \in PrinterData :
            create_printer(id, data) =>
                /\ id \notin Listed
                /\ get_all_printers' = get_all_printers \cup {Row(id, data)}
                /\ apiResponse'.status = 201
        /\ \A id \in PrinterIds \cup UuidPool :
            /\ (delete_printer(id) /\ id \in Listed) =>
                /\ get_all_printers' = get_all_printers \ {printers[id]}
                /\ Listed' = Listed \ {id}
                /\ apiResponse'.status = 204
            /\ (delete_printer(id) /\ id \notin Listed) =>
                /\ printers' = printers
                /\ apiResponse' = [op |-> "delete_printer", status |-> 404]
            /\ \A data \in PrinterData :
                (update_printer(id, data) /\ id \notin Listed) =>
                    /\ printers' = printers
                    /\ apiResponse' =
                          [op |-> "update_printer", status |-> 404]
        /\ Listed' # Listed =>
              \/ \E id \in UuidPool, data \in PrinterData :
                    create_printer(id, data)
              \/ \E id \in PrinterIds \cup UuidPool : delete_printer(id)
      ]_vars

\* a printer was created and deleted again, the seeded one is still listed
C23_Witness ==
    /\ apiResponse = [op |-> "delete_printer", status |-> 204]
    /\ Listed = {SeedPrinterId}

\* C24: with every request executed atomically, each printer's
\* current_filament_id is None or the id of a filament in the table.
C24_LoadedFilamentExists ==
    \A id \in DOMAIN farmPrinters :
        \/ farmPrinters[id].current_filament_id = Null
        \/ farmPrinters[id].current_filament_id \in DOMAIN filaments

\* C25: every printer's location is the name of a row of the locations
\* table.
C25_PrinterLocationExists ==
    \A id \in DOMAIN printers : printers[id].location \in get_all_locations

\* C29: create_location of a name the table has answers 409 and leaves the
\* table as it is, create_location of a new name adds one row with that
\* name and nothing else, and no name is ever in two rows.
C29_LocationNamesUnique ==
    /\ [][\A name \in LocationNames :
            create_location(name) =>
                IF name \in get_all_locations
                THEN /\ apiResponse' =
                           [op |-> "create_location", status |-> 409]
                     /\ locations' = locations
                ELSE /\ apiResponse' =
                           [op |-> "create_location", status |-> 201]
                     /\ get_all_locations' = get_all_locations \cup {name}
                     /\ CopiesIn(name, locations') = 1
                     /\ \A n \in get_all_locations :
                           CopiesIn(n, locations') = CopiesIn(n, locations)
         ]_vars
    /\ [](\A n \in get_all_locations : CopiesIn(n, locations) = 1)

\* Garage was deleted, Attic was created, and a create of a name the
\* table has was refused
C29_Witness ==
    /\ apiResponse = [op |-> "create_location", status |-> 409]
    /\ "Attic" \in get_all_locations
    /\ "Garage" \notin get_all_locations

\* C26: once a delete_filament and a load_filament_to_printer that ran
\* interleaved have both finished, no printer's current_filament_id is the
\* id of a filament that is no longer in the table.
C26_NoDanglingFilamentAfterRace ==
    (dfPc = "Idle" /\ lfPc = "Idle") =>
        \A id \in DOMAIN farmPrinters :
            farmPrinters[id].current_filament_id \in FilamentIds =>
                farmPrinters[id].current_filament_id \in DOMAIN filaments

\* C27: a step emits at most one part, and only a step that consumes a
\* chunk emits one, so the parts never outnumber the chunks consumed; when
\* the chunk leaves more than one complete frame in the buffer, only the
\* first is emitted and everything after its end marker stays buffered.
C27_OnePartPerChunk ==
    [][ /\ Len(parts') <= Len(parts) + 1
        /\ Len(parts') > Len(parts) =>
              /\ pos' > pos
              /\ SubSeq(parts', 1, Len(parts)) = parts
        /\ pos' > pos =>
              LET buf == byte_buffer \o SubSeq(stream, pos + 1, pos') IN
              HasFrame(buf) =>
                  /\ Len(parts') = Len(parts) + 1
                  /\ byte_buffer' = Slice(buf, Find(buf, EOI) + 2, Len(buf))
      ]_vars

\* one chunk brought two complete frames: one part is out, the second
\* frame is complete in the buffer and the stream has ended
C27_Witness ==
    /\ vPc = "Done" /\ vEnd = "eof" /\ Len(parts) = 1
    /\ byte_buffer \in Frames

\* C28: the emitted frames can be laid on the bytes received so far, each
\* frame on a contiguous run of bytes equal to it, the runs one after the
\* other in the order of emission and without a byte in common.
C28_FramesAreOrderedSlices ==
    \E offs \in [1..Len(parts) -> 0..pos] :
        \A i \in 1..Len(parts) :
            LET f == parts[i].frame IN
            /\ offs[i] + Len(f) <= pos
            /\ SubSeq(stream, offs[i] + 1, offs[i] + Len(f)) = f
            /\ i > 1 => offs[i - 1] + Len(parts[i - 1].frame) <= offs[i]

\* two different frames with payload have been emitted
C28_Witness ==
    /\ Len(parts) = 2
    /\ Len(parts[1].frame) = 5 /\ Len(parts[2].frame) = 5
    /\ parts[1].frame # parts[2].frame

====
